---- MODULE Spec2Model ----
(***************************************************************************)
(* State machine of the App component of csv-plotter-app (src/App.tsx):    *)
(* the file registry (parsedFileData, fileOrder), the selection, the       *)
(* per-file styles, the downsampled flags, the error slot and the loading  *)
(* flag, driven by processFiles (submit, read completion, merge),          *)
(* handleSelectionChange, handleStyleChange and handleClearAll.            *)
(*                                                                         *)
(* A submitFiles call starts one FileReader per new file; the reads settle *)
(* in any order.  Promise.all resolves when the last read resolves (its    *)
(* then-callback parses every file and merges the batch) and rejects when  *)
(* the first read rejects (catch-callback).  The five setState calls of    *)
(* the then-callback are applied as one render (React batches them), so    *)
(* the completion of the last read and the merge are one step.  A handler  *)
(* runs in the closure of the latest render: processFiles reads the        *)
(* current parsedFileData when it is called, and its then-callback reads   *)
(* the fileOrder of the render in which processFiles was called.           *)
(***************************************************************************)
EXTENDS Integers, Sequences, FiniteSets, TLC

VARIABLES
    parsedFileData,   \* file name -> its traces (<<>> when the key is absent)
    fileOrder,        \* registry order
    selectedFiles,    \* selection set
    xAxisTitle,       \* axis-title override of the x axis ("" when none)
    yAxisTitle,       \* axis-title override of the y axis ("" when none)
    fileStyles,       \* file name -> dash style ("" when the key is absent)
    downsampledFiles, \* names flagged as downsampled
    error,            \* the latest-error slot
    isLoading,        \* the loading flag
    batches,          \* submitFiles calls whose Promise.all has not settled, oldest first
    last,             \* history: the handler that ran last, its arguments, the state before it
    lttb              \* a call of largestTriangleThreeBuckets: arguments, returned array

vars == <<parsedFileData, fileOrder, selectedFiles, xAxisTitle, yAxisTitle, fileStyles,
          downsampledFiles, error, isLoading, batches, last, lttb>>

-----------------------------------------------------------------------------
(* Bounds of the model. *)

\* files in flight at the same time, over all submitFiles calls
MaxReads == 2
\* cap on the registry length (entries registered plus files in flight)
MaxOrder == 2

\* longest array handed to largestTriangleThreeBuckets when it is checked alone
MaxLen == 5

\* file names the user can submit
Names == {"A", "B"}

\* raw texts a read can deliver, named by what Papa.parse makes of them
Contents == {"bad", "onecol", "norows", "small", "big"}

\* styles the user picks in the style drop-down
StyleChoices == {"longdashdot"}

\* texts the user types into an axis-title input
AxisTitles == {"T"}

-----------------------------------------------------------------------------
(* Program constants. *)

LINE_STYLES == <<"solid", "dash", "dot", "dashdot", "longdash", "longdashdot">>
DOWNSAMPLING_THRESHOLD == 5000
DOWNSAMPLED_POINT_COUNT == 1000

-----------------------------------------------------------------------------
(* Values. *)

NoError == [kind |-> "none", file |-> ""]
\* `Error reading ${file.name}`
ReadErrorOf(name) == [kind |-> "read", file |-> name]
\* `Parsing error in ${file.name}: ...`
ParseErrorOf(name) == [kind |-> "parse", file |-> name]

NoBatch == [names |-> <<>>, slots |-> <<>>, arrival |-> <<>>, orderLen |-> 0]

\* no call of largestTriangleThreeBuckets under observation
NoCall == [data |-> <<>>, threshold |-> 0, sampled |-> <<>>, returned |-> FALSE]

-----------------------------------------------------------------------------
(* Numbers.  A value of the arrays is a number, NaN, or (in res.data) the  *)
(* text of a cell that dynamicTyping did not turn into a number.           *)

Num(n) == [kind |-> "num", v |-> n]
NaN == [kind |-> "nan", v |-> 0]
\* the text of a cell that is no number, such as n/a
Text == [kind |-> "str", v |-> 0]

\* Number(cell)
Number(cell) == IF cell.kind = "num" THEN cell ELSE NaN

IsNum(value) == value.kind = "num"

Abs(n) == IF n < 0 THEN -n ELSE n

Min(p, q) == IF p < q THEN p ELSE q

-----------------------------------------------------------------------------
(* largestTriangleThreeBuckets.  Indices are the zero-based indices of the *)
(* source: data[k] of the source is data[k + 1] here.  The bucket bounds   *)
(* are those of the doubles of the source.  The areas are computed         *)
(* exactly on the small integers of the model: an area is kept multiplied  *)
(* by 2 * avgRangeLength, which is the same positive factor for all the    *)
(* candidates of one bucket.  undefined is -1.                             *)

\* Faulty variant: a threshold equal to the length does not return the input.
NothingToDo_Strict(dataLength, threshold) ==
    threshold > dataLength \/ threshold = 0

\* threshold >= dataLength || threshold === 0
NothingToDo(dataLength, threshold) == threshold >= dataLength \/ threshold = 0

RECURSIVE Pow2(_)
\* 2^k
Pow2(k) == IF k = 0 THEN 1 ELSE 2 * Pow2(k - 1)

RECURSIVE PowMod(_, _)
\* 2^k modulo m
PowMod(k, m) == IF k = 0 THEN 1 % m ELSE (2 * PowMod(k - 1, m)) % m

RECURSIVE Log2(_, _)
\* the largest k with q * 2^k <= p, for p >= q >= 1
Log2(p, q) == IF 2 * q > p THEN 0 ELSE 1 + Log2(p, 2 * q)

\* every and i * every are doubles (53 bits, round to nearest, ties to
\* even).  every = p / q rounded is p / q + d / (q * 2^(52 - L)) with
\* L = Log2(p, q) and d the rounding of the 53-bit quotient: d = -r when the
\* remainder r of p * 2^(52 - L) by q is rounded down.  RoundsBelow: the
\* product i * every, rounded, is below the integer i * p / q, which happens
\* when q divides i * p, every was rounded down, and the product lies more
\* than half a step of the doubles under that integer.
RoundsBelow(i, p, q) ==
    /\ i > 0
    /\ (i * p) % q = 0
    /\ LET L == Log2(p, q)
           x == ((p % (2 * q)) * PowMod(52 - L, 2 * q)) % (2 * q)
           r == x % q
           quotient == (i * p) \div q
           E == Log2(quotient, 1)
           half == IF quotient = Pow2(E) THEN 1 ELSE 0
       IN /\ r > 0
          /\ (2 * r < q \/ (2 * r = q /\ x < q))
          /\ i * r * Pow2(1 + half + L) > q * Pow2(E)

\* Math.floor(i * every), every = (dataLength - 2) / (threshold - 2): the
\* floor of the exact quotient, or one less where the doubles round below it
FloorEvery(i, dataLength, threshold) ==
    (i * (dataLength - 2)) \div (threshold - 2)
    - (IF RoundsBelow(i, dataLength - 2, threshold - 2) THEN 1 ELSE 0)

RECURSIVE SumOf(_, _, _, _)
\* avgX += data[k].x (c = "x"), avgY += data[k].y (c = "y") for k in from .. to - 1
SumOf(data, c, from, to) ==
    IF from >= to THEN Num(0)
    ELSE LET rest == SumOf(data, c, from + 1, to)
             value == data[from + 1][c]
         IN IF IsNum(value) /\ IsNum(rest) THEN Num(value.v + rest.v) ELSE NaN

\* Math.abs((pointAX - avgX) * (p.y - pointAY) - (pointAX - p.x) * (avgY - pointAY)) * 0.5
\* with avgX = sumX / avgRangeLength and avgY = sumY / avgRangeLength, times
\* 2 * avgRangeLength; NaN when an operand is NaN or avgRangeLength is 0
TriangleArea(pointA, p, sumX, sumY, avgRangeLength) ==
    IF /\ IsNum(pointA.x) /\ IsNum(pointA.y) /\ IsNum(p.x) /\ IsNum(p.y)
       /\ IsNum(sumX) /\ IsNum(sumY) /\ avgRangeLength > 0
    THEN Num(Abs((pointA.x.v * avgRangeLength - sumX.v) * (p.y.v - pointA.y.v)
                 - (pointA.x.v - p.x.v) * (sumY.v - pointA.y.v * avgRangeLength)))
    ELSE NaN

\* area > maxArea: false when area is NaN
Greater(area, maxArea) == IsNum(area) /\ IsNum(maxArea) /\ area.v > maxArea.v

RECURSIVE ScanBucket(_, _, _, _, _, _, _, _)
\* for (; rangeOffs < rangeTo; rangeOffs++): best is maxArea and nextA
\* (maxAreaPoint is data[nextA])
ScanBucket(data, a, sumX, sumY, avgRangeLength, rangeOffs, rangeTo, best) ==
    IF rangeOffs >= rangeTo THEN best
    ELSE LET area == TriangleArea(data[a + 1], data[rangeOffs + 1], sumX, sumY,
                                  avgRangeLength)
         IN ScanBucket(data, a, sumX, sumY, avgRangeLength, rangeOffs + 1, rangeTo,
                       IF Greater(area, best.maxArea)
                       THEN [maxArea |-> area, nextA |-> rangeOffs]
                       ELSE best)

\* One iteration of for (let i = 0; i < threshold - 2; i++): st is i, a, nextA
\* and sampled; maxArea is set to -1 for every bucket, maxAreaPoint and nextA
\* are not reset
Bucket(data, threshold, st) ==
    LET dataLength == Len(data)
        avgRangeStart == FloorEvery(st.i + 1, dataLength, threshold) + 1
        avgRangeEnd == Min(FloorEvery(st.i + 2, dataLength, threshold) + 1, dataLength)
        avgRangeLength == avgRangeEnd - avgRangeStart
        sumX == SumOf(data, "x", avgRangeStart, avgRangeEnd)
        sumY == SumOf(data, "y", avgRangeStart, avgRangeEnd)
        rangeOffs == FloorEvery(st.i, dataLength, threshold) + 1
        rangeTo == FloorEvery(st.i + 1, dataLength, threshold) + 1
        best == ScanBucket(data, st.a, sumX, sumY, avgRangeLength, rangeOffs, rangeTo,
                           [maxArea |-> Num(-1), nextA |-> st.nextA])
    IN IF best.nextA # -1
       THEN [i |-> st.i + 1, a |-> best.nextA, nextA |-> best.nextA,
             sampled |-> Append(st.sampled, data[best.nextA + 1])]
       ELSE [st EXCEPT !.i = st.i + 1]

RECURSIVE BucketLoop(_, _, _, _)
\* The iterations st.i, ..., to - 1 of the loop, in order (evaluated in two
\* halves, so that the depth of the evaluation stays small on long arrays).
BucketLoop(data, threshold, st, to) ==
    IF st.i >= to THEN st
    ELSE IF st.i + 1 = to THEN Bucket(data, threshold, st)
    ELSE BucketLoop(data, threshold,
                    BucketLoop(data, threshold, st, (st.i + to) \div 2), to)

largestTriangleThreeBuckets(data, threshold) ==
    IF NothingToDo(Len(data), threshold) THEN data
    ELSE Append(BucketLoop(data, threshold,
                           [i |-> 0, a |-> 0, nextA |-> -1, sampled |-> <<data[1]>>],
                           threshold - 2).sampled,
                data[Len(data)])

-----------------------------------------------------------------------------
(* Papa.parse and the traces of a file. *)

\* res.data of "small": header t,a,b and the one row 1,2,n/a
SmallRows == << <<Num(1), Num(2), Text>> >>

\* res.data of "big": header t,a and DOWNSAMPLING_THRESHOLD + 1 rows r, r mod 3
BigRows == [r \in 1..(DOWNSAMPLING_THRESHOLD + 1) |-> <<Num(r), Num(r % 3)>>]

\* res.data: the rows, each row the cells in header order
ParsedRows(content) ==
    CASE content = "bad"    -> << <<Num(1), Num(1)>> >>
      [] content = "onecol" -> << <<Num(1)>> >>
      [] content = "norows" -> << >>
      [] content = "small"  -> SmallRows
      [] content = "big"    -> BigRows

\* Papa.parse(content, {header: true, ...}): whether res.errors is non-empty,
\* the number of header fields and the number of data rows.
PapaParse(content) ==
    CASE content = "bad"    -> [errors |-> TRUE,  fields |-> 2, rows |-> 1]
      [] content = "onecol" -> [errors |-> FALSE, fields |-> 1, rows |-> 1]
      [] content = "norows" -> [errors |-> FALSE, fields |-> 2, rows |-> 0]
      [] content = "small"  -> [errors |-> FALSE, fields |-> 3, rows |-> Len(SmallRows)]
      [] content = "big"    -> [errors |-> FALSE, fields |-> 2, rows |-> Len(BigRows)]

\* data.map(row => row[header]), header the one of column col
Column(rows, col) == [r \in 1..Len(rows) |-> rows[r][col]]

\* xData and yData of the trace of column col, as the loop body builds them
TraceArrays(rows, col) ==
    LET initialXData == Column(rows, 1)
        yData == Column(rows, col)
    IN IF Len(initialXData) > DOWNSAMPLING_THRESHOLD
       THEN LET combinedData == [r \in 1..Len(rows) |->
                                    [x |-> Number(initialXData[r]), y |-> Number(yData[r])]]
                sampled == largestTriangleThreeBuckets(combinedData, DOWNSAMPLED_POINT_COUNT)
            IN [x |-> [k \in 1..Len(sampled) |-> sampled[k].x],
                y |-> [k \in 1..Len(sampled) |-> sampled[k].y]]
       ELSE [x |-> initialXData, y |-> yData]

\* the arrays of every trace, by text and column: a trace in the state names
\* its text and its column, and its x and y arrays are looked up here
Arrays ==
    [content \in Contents |->
        [col \in 2..PapaParse(content).fields |-> TraceArrays(ParsedRows(content), col)]]

\* trace.x and trace.y
TraceX(trace) == Arrays[trace.data][trace.col].x
TraceY(trace) == Arrays[trace.data][trace.col].y

\* The traces of one file: one per header column after the first, in header
\* order, named `${yHeader} (${file.name})`; data and col stand for the x and
\* y arrays, which are TraceX and TraceY of the trace.
FileTraces(name, content) ==
    LET res == PapaParse(content) IN
    [i \in 1..(res.fields - 1) |->
        [col |-> i + 1, file |-> name, data |-> content,
         sampled |-> res.rows > DOWNSAMPLING_THRESHOLD]]

-----------------------------------------------------------------------------
(* processFiles: the then-callback. *)

\* The accumulators of the then-callback before the first file.
EmptyAcc ==
    [data |-> [n \in Names |-> <<>>], names |-> <<>>,
     styles |-> [n \in Names |-> ""], down |-> {}, error |-> [kind |-> "keep", file |-> ""]]

\* styleIndex = (fileOrder.length + newFileNames.length - 1) % LINE_STYLES.length,
\* fileOrder being the value the call of processFiles closed over.
StyleIndex(orderLen, count) == (orderLen + count - 1) % Len(LINE_STYLES)

\* Faulty variant: a parse error aborts the rest of the batch.
ParseOne_ErrorDrops(acc, name, content, orderLen) ==
    LET res == PapaParse(content) IN
    IF res.errors \/ acc.error.kind = "parse"
    THEN [acc EXCEPT !.error = IF acc.error.kind = "parse" THEN @ ELSE ParseErrorOf(name)]
    ELSE IF res.rows = 0 \/ res.fields < 2
    THEN acc
    ELSE [acc EXCEPT !.data[name] = FileTraces(name, content),
                     !.names = Append(@, name),
                     !.styles[name] = LINE_STYLES[StyleIndex(orderLen, Len(acc.names) + 1) + 1],
                     !.down = IF res.rows > DOWNSAMPLING_THRESHOLD THEN @ \cup {name} ELSE @]

\* Faulty variant: a file without a second column or without rows is reported
\* in the error slot.
ParseOne_DropSetsError(acc, name, content, orderLen) ==
    LET res == PapaParse(content) IN
    IF res.errors \/ res.rows = 0 \/ res.fields < 2
    THEN [acc EXCEPT !.error = ParseErrorOf(name)]
    ELSE [acc EXCEPT !.data[name] = FileTraces(name, content),
                     !.names = Append(@, name),
                     !.styles[name] = LINE_STYLES[StyleIndex(orderLen, Len(acc.names) + 1) + 1],
                     !.down = IF res.rows > DOWNSAMPLING_THRESHOLD THEN @ \cup {name} ELSE @]

\* The complete-callback of Papa.parse for one file of the batch.
ParseOne(acc, name, content, orderLen) ==
    LET res == PapaParse(content) IN
    IF res.errors
    THEN [acc EXCEPT !.error = ParseErrorOf(name)]
    ELSE IF res.rows = 0 \/ res.fields < 2
    THEN acc
    ELSE [acc EXCEPT !.data[name] = FileTraces(name, content),
                     !.names = Append(@, name),
                     !.styles[name] = LINE_STYLES[StyleIndex(orderLen, Len(acc.names) + 1) + 1],
                     !.down = IF res.rows > DOWNSAMPLING_THRESHOLD THEN @ \cup {name} ELSE @]

\* Faulty variant: the results are handled in the order the reads completed.
ResultsOrder_Completion(b) == b.arrival

\* Promise.all hands the results over in the order of fileReadPromises, which
\* is the order of newFiles.
ResultsOrder(b) == [i \in 1..Len(b.names) |-> i]

RECURSIVE ParseAll(_, _, _)
\* results.forEach(...) over the indices idx of batch b.
ParseAll(b, idx, acc) ==
    IF idx = <<>> THEN acc
    ELSE ParseAll(b, Tail(idx),
                  ParseOne(acc, b.names[Head(idx)], b.slots[Head(idx)], b.orderLen))

RemoveAt(s, k) == [i \in 1..(Len(s) - 1) |-> IF i < k THEN s[i] ELSE s[i + 1]]

\* the registry, the selection, the styles and the downsampled flags
Snapshot ==
    [parsedFileData |-> parsedFileData, fileOrder |-> fileOrder,
     selectedFiles |-> selectedFiles, fileStyles |-> fileStyles,
     downsampledFiles |-> downsampledFiles]

Did(op, name, style, batch) ==
    last' = [op |-> op, name |-> name, style |-> style, batch |-> batch, prev |-> Snapshot]

-----------------------------------------------------------------------------
(* Initial state: the useState initial values. *)

InitApp ==
    /\ parsedFileData = [n \in Names |-> <<>>]
    /\ fileOrder = <<>>
    /\ selectedFiles = {}
    /\ xAxisTitle = ""
    /\ yAxisTitle = ""
    /\ fileStyles = [n \in Names |-> ""]
    /\ downsampledFiles = {}
    /\ error = NoError
    /\ isLoading = FALSE
    /\ batches = <<>>
    /\ last = [op |-> "init", name |-> "", style |-> "", batch |-> NoBatch,
               prev |-> [parsedFileData |-> [n \in Names |-> <<>>], fileOrder |-> <<>>,
                         selectedFiles |-> {}, fileStyles |-> [n \in Names |-> ""],
                         downsampledFiles |-> {}]]

Init == InitApp /\ lttb = NoCall

-----------------------------------------------------------------------------
(* Helpers over the state. *)

Range(s) == {s[i] : i \in 1..Len(s)}

\* Object.keys(parsedFileData)
LoadedFiles == {n \in Names : parsedFileData[n] # <<>>}

\* files of the batches in flight: they can still be registered
InFlight(bs) ==
    LET RECURSIVE Count(_)
        Count(k) == IF k = 0 THEN 0 ELSE Count(k - 1) + Len(bs[k].names)
    IN Count(Len(bs))

\* the file lists a user can hand to submitFiles (the empty list returns at once)
FileLists == UNION {[1..n -> Names] : n \in 1..MaxReads}

-----------------------------------------------------------------------------
(* processFiles: the synchronous part. *)

\* Faulty variant: no file is filtered out.
NewFiles_NoFilter(files) == files

\* Array.from(files).filter(file => !parsedFileData[file.name])
NewFiles(files) == SelectSeq(files, LAMBDA n : parsedFileData[n] = <<>>)

submitFiles(files) ==
    LET newFiles == NewFiles(files) IN
    IF newFiles = <<>>
    THEN /\ isLoading' = FALSE
         /\ error' = NoError
         /\ Did("submitNone", "", "", [NoBatch EXCEPT !.names = files])
         /\ UNCHANGED <<parsedFileData, fileOrder, selectedFiles, fileStyles,
                        downsampledFiles, batches, xAxisTitle, yAxisTitle, lttb>>
    ELSE /\ InFlight(batches) + Len(newFiles) <= MaxReads
         /\ Len(fileOrder) + InFlight(batches) + Len(newFiles) <= MaxOrder
         /\ isLoading' = TRUE
         /\ error' = NoError
         /\ batches' = Append(batches,
                [names |-> newFiles, slots |-> [i \in 1..Len(newFiles) |-> "pending"],
                 arrival |-> <<>>, orderLen |-> Len(fileOrder)])
         /\ Did("submit", "", "", [NoBatch EXCEPT !.names = files])
         /\ UNCHANGED <<parsedFileData, fileOrder, selectedFiles, fileStyles,
                        downsampledFiles, xAxisTitle, yAxisTitle, lttb>>

-----------------------------------------------------------------------------
(* processFiles: the reads and the merge. *)

\* setParsedFileData(prev => ({ ...prev, ...newParsedData }))
MergeData(prev, acc) ==
    [n \in Names |-> IF acc.data[n] # <<>> THEN acc.data[n] ELSE prev[n]]

\* setFileOrder(prev => [...prev, ...newFileNames])
MergeOrder(prev, acc) == prev \o acc.names

\* Faulty variant: every file of the batch is selected, registered or not.
MergeSelected_AllOfBatch(prev, acc, b) == prev \cup Range(b.names)

\* setSelectedFiles(prev => new Set([...prev, ...newFileNames]))
MergeSelected(prev, acc, b) == prev \cup Range(acc.names)

\* setFileStyles(prev => ({ ...prev, ...newStyles }))
MergeStyles(prev, acc) ==
    [n \in Names |-> IF acc.styles[n] # "" THEN acc.styles[n] ELSE prev[n]]

\* setDownsampledFiles(prev => new Set([...prev, ...newDownsampledFiles]))
MergeDownsampled(prev, acc) == prev \cup acc.down

\* reader.onload of read i of batch k, delivering content: the promise of the
\* read resolves.  When it was the last pending read of the batch, Promise.all
\* resolves with the contents in the order of ResultsOrder, and the
\* then-callback and the finally-callback run.
onload(k, i, content) ==
    /\ k \in 1..Len(batches)
    /\ i \in 1..Len(batches[k].slots)
    /\ batches[k].slots[i] = "pending"
    /\ LET b == [batches[k] EXCEPT !.slots[i] = content, !.arrival = Append(@, i)] IN
       IF \E j \in 1..Len(b.slots) : b.slots[j] = "pending"
       THEN /\ batches' = [batches EXCEPT ![k] = b]
            /\ Did("read", b.names[i], "", b)
            /\ UNCHANGED <<parsedFileData, fileOrder, selectedFiles, fileStyles,
                           downsampledFiles, error, isLoading, xAxisTitle, yAxisTitle, lttb>>
       ELSE LET acc == ParseAll(b, ResultsOrder(b), EmptyAcc) IN
            /\ error' = IF acc.error.kind = "keep" THEN error ELSE acc.error
            /\ IF acc.names # <<>>
               THEN /\ parsedFileData' = MergeData(parsedFileData, acc)
                    /\ fileOrder' = MergeOrder(fileOrder, acc)
                    /\ selectedFiles' = MergeSelected(selectedFiles, acc, b)
                    /\ fileStyles' = MergeStyles(fileStyles, acc)
                    /\ downsampledFiles' = MergeDownsampled(downsampledFiles, acc)
               ELSE UNCHANGED <<parsedFileData, fileOrder, selectedFiles, fileStyles,
                                downsampledFiles>>
            /\ isLoading' = FALSE
            /\ batches' = RemoveAt(batches, k)
            /\ Did("merge", b.names[i], "", b)
            /\ UNCHANGED <<xAxisTitle, yAxisTitle, lttb>>

\* reject(new Error(`Error reading ${file.name}`)), then setError(err.message)
RejectError(name) == ReadErrorOf(name)

\* reader.onerror of read i of batch k: Promise.all rejects at once, the
\* then-callback is skipped, the catch- and finally-callbacks run.  The reads
\* of the batch that settle later find the promise settled and change nothing.
onerror(k, i) ==
    /\ k \in 1..Len(batches)
    /\ i \in 1..Len(batches[k].slots)
    /\ batches[k].slots[i] = "pending"
    /\ error' = RejectError(batches[k].names[i])
    /\ isLoading' = FALSE
    /\ batches' = RemoveAt(batches, k)
    /\ Did("reject", batches[k].names[i], "", batches[k])
    /\ UNCHANGED <<parsedFileData, fileOrder, selectedFiles, fileStyles, downsampledFiles,
                   xAxisTitle, yAxisTitle, lttb>>

-----------------------------------------------------------------------------
(* The other handlers. *)

\* Faulty variant: the axis-title overrides survive the clear.
handleClearAll_KeepsTitles ==
    /\ LoadedFiles # {}
    /\ parsedFileData' = [n \in Names |-> <<>>]
    /\ fileOrder' = <<>>
    /\ selectedFiles' = {}
    /\ error' = NoError
    /\ fileStyles' = [n \in Names |-> ""]
    /\ downsampledFiles' = {}
    /\ Did("clear", "", "", NoBatch)
    /\ UNCHANGED <<isLoading, batches, xAxisTitle, yAxisTitle, lttb>>

\* The clear button is rendered when loadedFileCount > 0.
handleClearAll ==
    /\ LoadedFiles # {}
    /\ parsedFileData' = [n \in Names |-> <<>>]
    /\ fileOrder' = <<>>
    /\ selectedFiles' = {}
    /\ xAxisTitle' = ""
    /\ yAxisTitle' = ""
    /\ error' = NoError
    /\ fileStyles' = [n \in Names |-> ""]
    /\ downsampledFiles' = {}
    /\ Did("clear", "", "", NoBatch)
    /\ UNCHANGED <<isLoading, batches, lttb>>

\* Faulty variant: a toggle only ever adds.
ToggleSelection_AddOnly(prev, fileName) == prev \cup {fileName}

\* the updater of handleSelectionChange
ToggleSelection(prev, fileName) ==
    IF fileName \in prev THEN prev \ {fileName} ELSE prev \cup {fileName}

\* One checkbox is rendered per entry of fileOrder, when loadedFileCount > 0.
handleSelectionChange(fileName) ==
    /\ LoadedFiles # {}
    /\ fileName \in Range(fileOrder)
    /\ selectedFiles' = ToggleSelection(selectedFiles, fileName)
    /\ Did("toggle", fileName, "", NoBatch)
    /\ UNCHANGED <<parsedFileData, fileOrder, fileStyles, downsampledFiles,
                   error, isLoading, batches, xAxisTitle, yAxisTitle, lttb>>

\* Faulty variant: the style is written to every file.
SetStyle_All(prev, fileName, style) == [n \in Names |-> IF prev[n] # "" THEN style ELSE ""]

\* the updater of handleStyleChange
SetStyle(prev, fileName, style) == [prev EXCEPT ![fileName] = style]

\* One style drop-down is rendered per entry of fileOrder, when loadedFileCount > 0.
handleStyleChange(fileName, style) ==
    /\ LoadedFiles # {}
    /\ fileName \in Range(fileOrder)
    /\ fileStyles' = SetStyle(fileStyles, fileName, style)
    /\ Did("style", fileName, style, NoBatch)
    /\ UNCHANGED <<parsedFileData, fileOrder, selectedFiles, downsampledFiles,
                   error, isLoading, batches, xAxisTitle, yAxisTitle, lttb>>

-----------------------------------------------------------------------------
(* tracesToPlot *)

\* fileStyles[fileName] || 'solid'
StyleOf(styles, fileName) == IF styles[fileName] = "" THEN "solid" ELSE styles[fileName]

\* the traces of one file, each stamped with the file's style
Stamped(traces, style) ==
    [i \in 1..Len(traces) |->
        [col |-> traces[i].col, file |-> traces[i].file, data |-> traces[i].data,
         sampled |-> traces[i].sampled, dash |-> style]]

RECURSIVE TracesOf(_, _, _, _)
TracesOf(order, selected, data, styles) ==
    IF order = <<>> THEN <<>>
    ELSE LET f == Head(order) IN
         (IF f \in selected /\ data[f] # <<>>
          THEN Stamped(data[f], StyleOf(styles, f)) ELSE <<>>)
         \o TracesOf(Tail(order), selected, data, styles)

tracesToPlot == TracesOf(fileOrder, selectedFiles, parsedFileData, fileStyles)

-----------------------------------------------------------------------------
(* plotLayout: the custom legend and the place of the default legend.      *)
(* Heights are in hundredths of the paper height: 1.08 is 108.             *)

\* fileOrder.filter(name => selectedFiles.has(name))
plottedFiles == SelectSeq(fileOrder, LAMBDA name : name \in selectedFiles)

\* yPos = 1.0 - (index * 0.08)
yPos(index) == 100 - index * 8

\* customLegendHeight = (plottedFiles.length * 0.08) + 0.08
customLegendHeight == Len(plottedFiles) * 8 + 8

\* defaultLegendTopY = 1.08 - customLegendHeight
defaultLegendTopY == 108 - customLegendHeight

\* shapes: one line per plotted file; annotations: one text per plotted
\* file, then the title of the custom legend; legend: legend.y, absent from
\* the empty layout
plotLayout ==
    IF tracesToPlot = <<>>
    THEN [shapes |-> <<>>, annotations |-> <<>>, legend |-> <<>>]
    ELSE [shapes |-> [k \in 1..Len(plottedFiles) |->
                         [y |-> yPos(k - 1),
                          dash |-> StyleOf(fileStyles, plottedFiles[k])]],
          annotations |-> [k \in 1..Len(plottedFiles) |->
                              [text |-> plottedFiles[k], y |-> yPos(k - 1)]]
                          \o (IF Len(plottedFiles) > 0
                              THEN <<[text |-> "File Styles", y |-> 108]>>
                              ELSE <<>>),
          legend |-> <<defaultLegendTopY>>]

-----------------------------------------------------------------------------
(* The axis-title inputs: rendered when loadedFileCount > 0 and            *)
(* tracesToPlot.length > 0.                                                *)

\* onChange of the x-axis-title input: setXAxisTitle(e.target.value)
setXAxisTitle(text) ==
    /\ LoadedFiles # {}
    /\ tracesToPlot # <<>>
    /\ xAxisTitle' = text
    /\ Did("xtitle", "", "", NoBatch)
    /\ UNCHANGED <<parsedFileData, fileOrder, selectedFiles, yAxisTitle, fileStyles,
                   downsampledFiles, error, isLoading, batches, lttb>>

\* onChange of the y-axis-title input: setYAxisTitle(e.target.value)
setYAxisTitle(text) ==
    /\ LoadedFiles # {}
    /\ tracesToPlot # <<>>
    /\ yAxisTitle' = text
    /\ Did("ytitle", "", "", NoBatch)
    /\ UNCHANGED <<parsedFileData, fileOrder, selectedFiles, xAxisTitle, fileStyles,
                   downsampledFiles, error, isLoading, batches, lttb>>

-----------------------------------------------------------------------------

\* the handlers of the file list
NextFiles ==
    \/ \E files \in FileLists : submitFiles(files)
    \/ \E k \in 1..MaxReads, i \in 1..MaxReads, content \in Contents : onload(k, i, content)
    \/ \E k \in 1..MaxReads, i \in 1..MaxReads : onerror(k, i)
    \/ handleClearAll
    \/ \E fileName \in Names : handleSelectionChange(fileName)
    \/ \E fileName \in Names, style \in StyleChoices : handleStyleChange(fileName, style)

\* the handlers of the axis-title inputs
NextTitles ==
    \/ \E text \in AxisTitles : setXAxisTitle(text)
    \/ \E text \in AxisTitles : setYAxisTitle(text)

Next == NextFiles \/ NextTitles

\* the App component
Spec == Init /\ [][Next]_vars

\* the App component while the axis-title inputs are left alone: no other
\* handler reads xAxisTitle or yAxisTitle
SpecFiles == Init /\ [][NextFiles]_vars

-----------------------------------------------------------------------------
(* largestTriangleThreeBuckets alone: one call on an array of at most      *)
(* MaxLen points and a threshold from 0 to MaxLen + 1.                     *)

\* point k (zero-based) of an input: abscissa k and ordinate 0 or 1, or the
\* abscissa or the ordinate NaN
PointShapes == {"low", "high", "nanY", "nanX"}

PointOf(k, shape) ==
    CASE shape = "low"  -> [x |-> Num(k), y |-> Num(0)]
      [] shape = "high" -> [x |-> Num(k), y |-> Num(1)]
      [] shape = "nanY" -> [x |-> Num(k), y |-> NaN]
      [] shape = "nanX" -> [x |-> NaN, y |-> Num(1)]

PointArrays ==
    UNION {{[k \in 1..n |-> PointOf(k - 1, shapes[k])] : shapes \in [1..n -> PointShapes]} :
           n \in 0..MaxLen}

Thresholds == 0..(MaxLen + 1)

\* arrays of 17 points, the last four of them of either height, and the
\* thresholds 13 and 15: the shortest arrays on which a bound of a bucket, in
\* doubles, is not the floor of the exact quotient
LongArrays ==
    {[k \in 1..17 |-> PointOf(k - 1, IF k <= 13 THEN "low" ELSE shapes[k - 13])] :
        shapes \in [1..4 -> {"low", "high"}]}

LongThresholds == {13, 15}

InitLTTB ==
    /\ InitApp
    /\ lttb \in {[data |-> data, threshold |-> threshold, sampled |-> <<>>,
                   returned |-> FALSE] : data \in PointArrays, threshold \in Thresholds}
                 \cup
                 {[data |-> data, threshold |-> threshold, sampled |-> <<>>,
                   returned |-> FALSE] : data \in LongArrays, threshold \in LongThresholds}

\* the call returns
callLTTB ==
    /\ ~lttb.returned
    /\ lttb' = [lttb EXCEPT !.sampled = largestTriangleThreeBuckets(lttb.data, lttb.threshold),
                            !.returned = TRUE]
    /\ UNCHANGED <<parsedFileData, fileOrder, selectedFiles, xAxisTitle, yAxisTitle,
                   fileStyles, downsampledFiles, error, isLoading, batches, last>>

NextLTTB == callLTTB

SpecLTTB == InitLTTB /\ [][NextLTTB]_vars

-----------------------------------------------------------------------------
(* Vocabulary of the properties. *)

\* a text from which the then-callback registers a file: no parse error, at
\* least two header columns and at least one data row
Registrable(content) ==
    /\ content \in Contents
    /\ ~PapaParse(content).errors
    /\ PapaParse(content).fields >= 2
    /\ PapaParse(content).rows >= 1

\* the names of the files of batch b that register, in submission order
RegisteringNames(b) ==
    LET idx == SelectSeq([i \in 1..Len(b.names) |-> i], LAMBDA i : Registrable(b.slots[i]))
    IN [j \in 1..Len(idx) |-> b.names[idx[j]]]

\* what the last step appended to the registry order
Appended == SubSeq(fileOrder, Len(last.prev.fileOrder) + 1, Len(fileOrder))

\* the names with an entry in a style map
Styled(styles) == {n \in Names : styles[n] # ""}

\* the names with an entry in a parsedFileData object
Loaded(data) == {n \in Names : data[n] # <<>>}

RegistryUnchanged ==
    /\ parsedFileData = last.prev.parsedFileData
    /\ fileOrder = last.prev.fileOrder
    /\ downsampledFiles = last.prev.downsampledFiles

-----------------------------------------------------------------------------
(* C1: when a batch merges, the files of the batch that register are      *)
(* appended to the registry order in their submission order, whatever the *)
(* order in which the reads completed.                                    *)

C1_SubmissionOrder ==
    last.op = "merge" =>
        /\ fileOrder = last.prev.fileOrder \o RegisteringNames(last.batch)
        /\ Range(last.batch.arrival) = 1..Len(last.batch.names)

\* batch [A, B], B read before A, both register: the order ends with A, B
C1_Witness ==
    /\ last.op = "merge"
    /\ last.batch.names = <<"A", "B">>
    /\ last.batch.arrival = <<2, 1>>
    /\ Registrable(last.batch.slots[1])
    /\ Registrable(last.batch.slots[2])
    /\ Appended = <<"A", "B">>

-----------------------------------------------------------------------------
(* C2: the registry order never holds a file name twice.                  *)

C2_UniqueNames ==
    \A i, j \in 1..Len(fileOrder) : fileOrder[i] = fileOrder[j] => i = j

-----------------------------------------------------------------------------
(* C3: a submitted file whose name is already in the registry is ignored:  *)
(* the call starts no read for it and leaves the registry order, every     *)
(* file's series and style, the selection and the downsampled flags as     *)
(* they were; the reads it starts are those of the other submitted files,  *)
(* in submission order.                                                    *)

C3_ResubmitIgnored ==
    last.op \in {"submit", "submitNone"} =>
        LET fresh == SelectSeq(last.batch.names,
                               LAMBDA n : n \notin Loaded(last.prev.parsedFileData))
        IN
        /\ RegistryUnchanged
        /\ fileStyles = last.prev.fileStyles
        /\ selectedFiles = last.prev.selectedFiles
        /\ last.op = "submitNone" => fresh = <<>>
        /\ last.op = "submit" => /\ batches # <<>>
                                 /\ batches[Len(batches)].names = fresh
                                 /\ fresh # <<>>

\* A and B registered, A submitted again: the order stays [A, B]
C3_Witness ==
    /\ last.op = "submitNone"
    /\ last.batch.names = <<"A">>
    /\ fileOrder = <<"A", "B">>
    /\ parsedFileData["A"] # <<>>
    /\ parsedFileData = last.prev.parsedFileData
    /\ fileStyles = last.prev.fileStyles
    /\ batches = <<>>

-----------------------------------------------------------------------------
(* C4: when the read of one file of a batch fails, the files of the batch  *)
(* whose reads and parses succeed are registered, and the error slot names *)
(* the file that could not be read.  Stated for the batches whose files    *)
(* have distinct names.                                                    *)

C4_ReadErrorKeepsOthers ==
    (/\ last.op = "reject"
     /\ \A i, j \in 1..Len(last.batch.names) :
            last.batch.names[i] = last.batch.names[j] => i = j) =>
        /\ error = ReadErrorOf(last.name)
        /\ \A j \in 1..Len(last.batch.names) :
               Registrable(last.batch.slots[j]) => last.batch.names[j] \in Range(fileOrder)

-----------------------------------------------------------------------------
(* C5: when the parse of a file of a batch fails, that file adds no        *)
(* registry entry, and every file of the batch that parses with at least   *)
(* two columns and one row is registered by the same merge: it is in the   *)
(* order, has series and a style and is selected.                          *)

C5_ParseErrorKeepsOthers ==
    (last.op = "merge" /\ \E i \in 1..Len(last.batch.names) :
                              PapaParse(last.batch.slots[i]).errors) =>
        LET b == last.batch
            good == {i \in 1..Len(b.names) : Registrable(b.slots[i])}
        IN
        /\ Len(Appended) = Cardinality(good)
        /\ SubSeq(fileOrder, 1, Len(last.prev.fileOrder)) = last.prev.fileOrder
        /\ \A i \in good :
               /\ b.names[i] \in Range(Appended)
               /\ parsedFileData[b.names[i]] # <<>>
               /\ fileStyles[b.names[i]] # ""
               /\ b.names[i] \in selectedFiles
        /\ \A i \in 1..Len(b.names) :
               (/\ b.names[i] \notin Loaded(last.prev.parsedFileData)
                /\ \A j \in 1..Len(b.names) : b.names[j] = b.names[i] => j \notin good)
               => /\ b.names[i] \notin Range(fileOrder)
                  /\ parsedFileData[b.names[i]] = <<>>
        /\ error.kind = "parse"
        /\ \E i \in 1..Len(b.names) :
               PapaParse(b.slots[i]).errors /\ error.file = b.names[i]

\* batch [A, B]: A fails to parse, B registers
C5_Witness ==
    /\ last.op = "merge"
    /\ last.batch.names = <<"A", "B">>
    /\ PapaParse(last.batch.slots[1]).errors
    /\ Registrable(last.batch.slots[2])
    /\ Appended = <<"B">>
    /\ parsedFileData["A"] = <<>>
    /\ parsedFileData["B"] # <<>>
    /\ error = ParseErrorOf("A")

-----------------------------------------------------------------------------
(* C6: no file of a batch is visible in the registry, the selection, the   *)
(* style map or the downsampled set while a read of that batch is pending. *)

C6_NothingBeforeMerge ==
    \A k \in 1..Len(batches) : \A i \in 1..Len(batches[k].names) :
        LET n == batches[k].names[i] IN
        /\ n \notin Range(fileOrder)
        /\ n \notin Loaded(parsedFileData)
        /\ n \notin selectedFiles
        /\ n \notin Styled(fileStyles)
        /\ n \notin downsampledFiles

-----------------------------------------------------------------------------
(* C7: a file that is registered gets the style LINE_STYLES[p mod 6], p    *)
(* its zero-based position in the registry order.  Stated for the merges   *)
(* that register each name once and for the first time.                    *)

C7_StyleByPosition ==
    (/\ last.op = "merge"
     /\ \A p, q \in 1..Len(fileOrder) : fileOrder[p] = fileOrder[q] => p = q) =>
        \A p \in (Len(last.prev.fileOrder) + 1)..Len(fileOrder) :
            fileStyles[fileOrder[p]] = LINE_STYLES[((p - 1) % Len(LINE_STYLES)) + 1]

-----------------------------------------------------------------------------
(* C8: a selection toggle on a registered file changes only the selection, *)
(* and only for that file; toggling the file again gives the selection     *)
(* back.                                                                   *)

C8_ToggleFrame ==
    last.op = "toggle" =>
        /\ RegistryUnchanged
        /\ fileStyles = last.prev.fileStyles
        /\ last.name \in Range(fileOrder)
        /\ (last.name \in selectedFiles) # (last.name \in last.prev.selectedFiles)
        /\ selectedFiles \ {last.name} = last.prev.selectedFiles \ {last.name}
        /\ ToggleSelection(selectedFiles, last.name) = last.prev.selectedFiles

\* a registered file that had been deselected is selected again, style kept
C8_Witness ==
    /\ last.op = "toggle"
    /\ Len(fileOrder) = 2
    /\ last.name \notin last.prev.selectedFiles
    /\ last.name \in selectedFiles
    /\ fileStyles[last.name] # ""
    /\ fileStyles = last.prev.fileStyles

-----------------------------------------------------------------------------
(* C9: setStyle on a registered file changes that file's style entry and   *)
(* nothing else, and every series of the file in the plot request carries  *)
(* the new style.                                                          *)

C9_SetStyleFrame ==
    last.op = "style" =>
        /\ RegistryUnchanged
        /\ selectedFiles = last.prev.selectedFiles
        /\ fileStyles[last.name] = last.style
        /\ \A n \in Names \ {last.name} : fileStyles[n] = last.prev.fileStyles[n]
        /\ \A t \in 1..Len(tracesToPlot) :
               tracesToPlot[t].file = last.name => tracesToPlot[t].dash = last.style
        /\ last.name \in selectedFiles =>
               \E t \in 1..Len(tracesToPlot) : tracesToPlot[t].file = last.name

\* two files plotted, the style of one is changed, the other keeps its own
C9_Witness ==
    /\ last.op = "style"
    /\ fileOrder = <<"A", "B">>
    /\ selectedFiles = {"A", "B"}
    /\ last.name = "A"
    /\ last.prev.fileStyles["A"] # last.style
    /\ fileStyles["A"] = last.style
    /\ fileStyles["B"] = "dash"
    /\ \E t \in 1..Len(tracesToPlot) :
           tracesToPlot[t].file = "A" /\ tracesToPlot[t].dash = last.style
    /\ \E t \in 1..Len(tracesToPlot) :
           tracesToPlot[t].file = "B" /\ tracesToPlot[t].dash = "dash"

-----------------------------------------------------------------------------
(* C10: the selection is a subset of the registered file names.            *)

C10_SelectionRegistered ==
    /\ selectedFiles \subseteq Range(fileOrder)
    /\ selectedFiles \subseteq Loaded(parsedFileData)

\* clear-all on a registry with a selected file, a batch still in flight
C10_Witness ==
    /\ last.op = "clear"
    /\ last.prev.selectedFiles # {}
    /\ selectedFiles = {}
    /\ fileOrder = <<>>
    /\ batches # <<>>

-----------------------------------------------------------------------------
(* C11: clear-all gives, in one step, an empty registry (order and         *)
(* series), an empty selection, an empty style map, an empty downsampled   *)
(* set and empty axis-title overrides, and the plot request of that state  *)
(* has no series.                                                          *)

C11_ClearAllEmpties ==
    last.op = "clear" =>
        /\ fileOrder = <<>>
        /\ Loaded(parsedFileData) = {}
        /\ selectedFiles = {}
        /\ Styled(fileStyles) = {}
        /\ downsampledFiles = {}
        /\ xAxisTitle = ""
        /\ yAxisTitle = ""
        /\ tracesToPlot = <<>>

\* two files loaded, one of them selected and flagged as downsampled, then
\* clear-all
C11_Witness ==
    /\ last.op = "clear"
    /\ Len(last.prev.fileOrder) = 2
    /\ Cardinality(last.prev.selectedFiles) = 1
    /\ last.prev.downsampledFiles # {}
    /\ Styled(last.prev.fileStyles) # {}
    /\ fileOrder = <<>>
    /\ xAxisTitle = ""
    /\ tracesToPlot = <<>>

-----------------------------------------------------------------------------
(* C12: when a batch merges, a file of the batch is registered if and only *)
(* if its parse reports no error and it has at least two header columns    *)
(* and at least one data row; a file with fewer than two columns or with   *)
(* no rows adds no registry entry and does not set the error slot.         *)

C12_RegisteredIff ==
    [][last'.op = "merge" =>
        LET b == last'.batch
            good == {i \in 1..Len(b.names) : Registrable(b.slots[i])}
        IN
        /\ fileOrder' = fileOrder \o RegisteringNames(b)
        /\ Len(fileOrder') = Len(fileOrder) + Cardinality(good)
        /\ \A i \in good : /\ b.names[i] \in Loaded(parsedFileData')
                            /\ b.names[i] \in Range(fileOrder')
        /\ \A i \in 1..Len(b.names) :
               (\A j \in 1..Len(b.names) : b.names[j] = b.names[i] => j \notin good)
               => /\ parsedFileData'[b.names[i]] = parsedFileData[b.names[i]]
                  /\ (b.names[i] \in Range(fileOrder')) = (b.names[i] \in Range(fileOrder))
        /\ (\A i \in 1..Len(b.names) : ~PapaParse(b.slots[i]).errors) => error' = error
    ]_vars

\* batch [A, B]: A has one column and is dropped, B registers, no error set
C12_Witness ==
    /\ last.op = "merge"
    /\ last.batch.names = <<"A", "B">>
    /\ last.batch.slots[1] = "onecol"
    /\ Registrable(last.batch.slots[2])
    /\ Appended = <<"B">>
    /\ parsedFileData["A"] = <<>>
    /\ error = NoError

-----------------------------------------------------------------------------
(* C13: once a file is registered, every step other than clear-all leaves  *)
(* the file's series as they were and leaves the registry order an         *)
(* extension of what it was, also when two batches in flight at the same   *)
(* time carry a file of the same name.                                     *)

C13_SeriesImmutable ==
    last.op # "clear" =>
        /\ \A n \in Loaded(last.prev.parsedFileData) :
               parsedFileData[n] = last.prev.parsedFileData[n]
        /\ Len(fileOrder) >= Len(last.prev.fileOrder)
        /\ SubSeq(fileOrder, 1, Len(last.prev.fileOrder)) = last.prev.fileOrder

-----------------------------------------------------------------------------
(* Vocabulary of the properties of largestTriangleThreeBuckets. *)

\* no coordinate of the array is NaN
AllNumbers(data) == \A k \in 1..Len(data) : IsNum(data[k].x) /\ IsNum(data[k].y)

-----------------------------------------------------------------------------
(* C14: largestTriangleThreeBuckets returns its input unchanged when the   *)
(* input has at most threshold points or the threshold is 0.               *)

C14_Identity ==
    (lttb.returned /\ (Len(lttb.data) <= lttb.threshold \/ lttb.threshold = 0)) =>
        lttb.sampled = lttb.data

\* threshold 0 on three points, one of them with a NaN ordinate
C14_Witness ==
    /\ lttb.returned
    /\ lttb.threshold = 0
    /\ Len(lttb.data) = 3
    /\ ~AllNumbers(lttb.data)
    /\ lttb.sampled = lttb.data

-----------------------------------------------------------------------------
(* C15: on an input of more than threshold points, threshold >= 3,         *)
(* largestTriangleThreeBuckets returns exactly threshold points, the first *)
(* and the last of them being the first and the last point of the input.   *)

C15_ExactCount ==
    (lttb.returned /\ Len(lttb.data) > lttb.threshold /\ lttb.threshold >= 3) =>
        /\ Len(lttb.sampled) = lttb.threshold
        /\ lttb.sampled[1] = lttb.data[1]
        /\ lttb.sampled[Len(lttb.sampled)] = lttb.data[Len(lttb.data)]

-----------------------------------------------------------------------------
(* C16: on an input of more than threshold points, threshold >= 1, the     *)
(* thresholds 1 and 2 included, largestTriangleThreeBuckets returns        *)
(* exactly threshold points.  Stated for the inputs without NaN.           *)

C16_SmallTargets ==
    (/\ lttb.returned
     /\ lttb.threshold >= 1
     /\ Len(lttb.data) > lttb.threshold
     /\ AllNumbers(lttb.data)) =>
        Len(lttb.sampled) = lttb.threshold

-----------------------------------------------------------------------------
(* C17: a registered file of more than DOWNSAMPLING_THRESHOLD rows has     *)
(* DOWNSAMPLED_POINT_COUNT points in each of its series and is in the      *)
(* downsampled set; a registered file of at most DOWNSAMPLING_THRESHOLD    *)
(* rows has one point per row in each of its series and is not in the      *)
(* downsampled set.                                                        *)

C17_ThresholdPolicy ==
    \A n \in LoadedFiles :
        \A i \in 1..Len(parsedFileData[n]) :
            LET trace == parsedFileData[n][i]
                rowCount == Len(ParsedRows(trace.data))
            IN IF rowCount > DOWNSAMPLING_THRESHOLD
               THEN /\ Len(TraceX(trace)) = DOWNSAMPLED_POINT_COUNT
                    /\ Len(TraceY(trace)) = DOWNSAMPLED_POINT_COUNT
                    /\ n \in downsampledFiles
               ELSE /\ Len(TraceX(trace)) = rowCount
                    /\ Len(TraceY(trace)) = rowCount
                    /\ n \notin downsampledFiles

-----------------------------------------------------------------------------
(* C18: in every series of a registered file, downsampled or not, a cell   *)
(* that is no number appears as NaN at the position of its row, the series *)
(* exists, and its x and y arrays have the same length.                    *)

C18_CoercionToNaN ==
    \A n \in LoadedFiles :
        /\ Len(parsedFileData[n]) >= 1
        /\ \A i \in 1..Len(parsedFileData[n]) :
               LET trace == parsedFileData[n][i]
                   rows == ParsedRows(trace.data)
               IN /\ Len(TraceX(trace)) = Len(TraceY(trace))
                  /\ \A k \in 1..Len(TraceY(trace)) : TraceY(trace)[k].kind # "str"
                  /\ ~trace.sampled =>
                         \A r \in 1..Len(rows) :
                             ~IsNum(rows[r][trace.col]) => TraceY(trace)[r] = NaN

-----------------------------------------------------------------------------
(* Vocabulary of the properties of the plot request. *)

\* the selected files, each of them once, in registry order
SelectedInOrder ==
    LET idx == SelectSeq([i \in 1..Len(fileOrder) |-> i],
                         LAMBDA i : /\ fileOrder[i] \in selectedFiles
                                    /\ \A j \in 1..(i - 1) : fileOrder[j] # fileOrder[i])
    IN [k \in 1..Len(idx) |-> fileOrder[idx[k]]]

RECURSIVE SeriesOfFiles(_)
\* the series of the files, file after file, each file's series in the order
\* of the header columns and with the file's style
SeriesOfFiles(files) ==
    IF files = <<>> THEN <<>>
    ELSE LET f == Head(files) IN
         [i \in 1..Len(parsedFileData[f]) |->
             [col |-> i + 1, file |-> f, data |-> parsedFileData[f][i].data,
              sampled |-> parsedFileData[f][i].sampled, dash |-> fileStyles[f]]]
         \o SeriesOfFiles(Tail(files))

-----------------------------------------------------------------------------
(* C19: the series list of the plot request is the concatenation, over the *)
(* selected files in registry order, of each file's series in the order of *)
(* the header columns, each series carrying the current style of its file; *)
(* unselected files contribute nothing, and the list is empty exactly when *)
(* no file is selected.                                                    *)

C19_PlotRequest ==
    /\ tracesToPlot = SeriesOfFiles(SelectedInOrder)
    /\ \A t \in 1..Len(tracesToPlot) : tracesToPlot[t].file \in selectedFiles
    /\ (tracesToPlot = <<>>) = (selectedFiles = {})

-----------------------------------------------------------------------------
(* C20: with k >= 1 selected files the custom legend has k slots, the slot *)
(* of the i-th selected file in registry order (i from 0) is at 1.0 less   *)
(* i times 0.08, and the default legend starts at 1.08 - (k * 0.08 + 0.08),*)
(* strictly below every slot; with no selected file there is no entry of   *)
(* the custom legend.                                                      *)

C20_LegendSlots ==
    LET k == Cardinality(selectedFiles)
        files == SelectedInOrder
    IN
    /\ k >= 1 =>
          /\ Len(plotLayout.shapes) = k
          /\ Len(plotLayout.annotations) = k + 1
          /\ \A i \in 0..(k - 1) :
                 /\ plotLayout.shapes[i + 1].y = 100 - i * 8
                 /\ plotLayout.annotations[i + 1].text = files[i + 1]
                 /\ plotLayout.annotations[i + 1].y = 100 - i * 8
          /\ plotLayout.legend = <<108 - (k * 8 + 8)>>
          /\ \A i \in 1..Len(plotLayout.shapes) :
                 plotLayout.legend[1] < plotLayout.shapes[i].y
    /\ k = 0 => /\ plotLayout.shapes = <<>>
                /\ plotLayout.annotations = <<>>

-----------------------------------------------------------------------------
(* Vocabulary of the properties of the buckets.  Indices are zero-based.   *)

\* the candidates of bucket i, of n points and target t: the indices k with
\* i * every < k <= (i + 1) * every, every = (n - 2) / (t - 2)
BucketOf(i, n, t) ==
    {k \in 1..(n - 2) : i * (n - 2) < k * (t - 2) /\ k * (t - 2) <= (i + 1) * (n - 2)}

\* the points whose centroid closes the triangles of bucket i: those of
\* bucket i + 1, and the last point for the final bucket
CentroidOf(i, n, t) == IF i = t - 3 THEN {n - 1} ELSE BucketOf(i + 1, n, t)

RECURSIVE SumOver(_, _, _)
\* the sum of the coordinate c over the points of the index set S
SumOver(data, c, S) ==
    IF S = {} THEN 0
    ELSE LET k == CHOOSE k \in S : TRUE
         IN data[k + 1][c].v + SumOver(data, c, S \ {k})

\* the area of the triangle of the points anchor and p and the centroid of
\* the points of S, times 2 * Cardinality(S): the shoelace formula
AreaWith(data, anchor, p, S) ==
    LET m == Cardinality(S)
        sx == SumOver(data, "x", S)
        sy == SumOver(data, "y", S)
    IN Abs(anchor.x.v * (m * p.y.v - sy) + p.x.v * (sy - m * anchor.y.v)
           + sx * (anchor.y.v - p.y.v))

\* the output's point of bucket i is the candidate k of bucket i, the
\* anchor being the output's point before it
PickedAt(i, k) ==
    LET n == Len(lttb.data)
        t == lttb.threshold
        anchor == lttb.sampled[i + 1]
        S == CentroidOf(i, n, t)
    IN /\ k \in BucketOf(i, n, t)
       /\ lttb.sampled[i + 2] = lttb.data[k + 1]
       /\ \A j \in BucketOf(i, n, t) :
             /\ AreaWith(lttb.data, anchor, lttb.data[j + 1], S)
                   <= AreaWith(lttb.data, anchor, lttb.data[k + 1], S)
             /\ j < k => AreaWith(lttb.data, anchor, lttb.data[j + 1], S)
                            < AreaWith(lttb.data, anchor, lttb.data[k + 1], S)

-----------------------------------------------------------------------------
(* C21: on an input of more than threshold points, threshold >= 3, the     *)
(* point returned for bucket i is the candidate of bucket i with the       *)
(* largest area of the triangle with the point returned for bucket i - 1   *)
(* (the first point of the input for bucket 0) and the centroid of bucket  *)
(* i + 1 (the last point of the input for the final bucket); of several    *)
(* candidates of the largest area it is the one of the lowest index; the   *)
(* point returned is the anchor of bucket i + 1.  Stated for the inputs    *)
(* without NaN, on which every area is a number.                           *)

C21_LargestTriangle ==
    (/\ lttb.returned
     /\ lttb.threshold >= 3
     /\ Len(lttb.data) > lttb.threshold
     /\ AllNumbers(lttb.data)) =>
        /\ lttb.sampled[1] = lttb.data[1]
        /\ \A i \in 0..(lttb.threshold - 3) :
              \E k \in BucketOf(i, Len(lttb.data), lttb.threshold) : PickedAt(i, k)

-----------------------------------------------------------------------------
(* C22: on an input of more than threshold points, threshold >= 3, the     *)
(* points returned are the first point, then one point of each of the      *)
(* threshold - 2 buckets in the order of the buckets, then the last point: *)
(* they are taken at strictly increasing indices and no point of the input *)
(* is returned twice.  Stated for every input, those with NaN included.    *)

C22_OnePerBucket ==
    (/\ lttb.returned
     /\ lttb.threshold >= 3
     /\ Len(lttb.data) > lttb.threshold) =>
        /\ Len(lttb.sampled) = lttb.threshold
        /\ lttb.sampled[1] = lttb.data[1]
        /\ lttb.sampled[lttb.threshold] = lttb.data[Len(lttb.data)]
        /\ \A i \in 0..(lttb.threshold - 3) :
              \E k \in BucketOf(i, Len(lttb.data), lttb.threshold) :
                  lttb.sampled[i + 2] = lttb.data[k + 1]

-----------------------------------------------------------------------------
(* C23: the loading flag is true in every state in which a submitted batch *)
(* of at least one new file has neither merged nor failed, also when two   *)
(* batches are in flight and one of them settles first.                    *)

C23_LoadingWhileInFlight == batches # <<>> => isLoading = TRUE

-----------------------------------------------------------------------------
(* C24: after clear-all the registry, the selection and the style map stay *)
(* empty until a batch submitted after the clear-all merges: the merge of  *)
(* a batch submitted before the clear-all registers nothing.  The batch    *)
(* that merges was submitted before the clear-all when the merge is the    *)
(* step that follows the clear-all, and when the batch was submitted on a  *)
(* registry that listed files and merges into an empty one.                *)

C24_EmptyUntilNewSubmit ==
    [][(/\ last'.op = "merge"
        /\ \/ last.op = "clear"
           \/ last'.batch.orderLen > 0 /\ fileOrder = <<>>)
       => (/\ fileOrder' = <<>>
           /\ Loaded(parsedFileData') = {}
           /\ selectedFiles' = {}
           /\ Styled(fileStyles') = {})]_vars

====
